---- MODULE Spec2Model ----
(***************************************************************************)
(* Bluetooth pairing orchestration of zebra-zq220-connect.                 *)
(*                                                                         *)
(*   native side  BluetoothPairingModule.kt (Adapter Gateway, Discovery    *)
(*                Listener, Bond State Observer) and PairingReceiver.kt    *)
(*                (Pairing Responder)                                      *)
(*   JS side      App.tsx (Device List Reconciler)                         *)
(*   platform     the Bluetooth adapter: bond states, the running scan,    *)
(*                the broadcasts it sends                                  *)
(*                                                                         *)
(* A @ReactMethod runs when JS calls it and its promise settles later: the *)
(* settlement travels to JS in the same FIFO as the emitted events (toJs). *)
(* ACTION_DISCOVERY_FINISHED is delivered after the platform sent it       *)
(* (finPending); the other broadcasts are handled when they are sent.      *)
(***************************************************************************)
EXTENDS Integers, Sequences, FiniteSets, TLC

\* ------------------------------------------------------------------ bounds
MaxQueue == 2     \* messages in flight from native to JS
MaxRegs == 2      \* registrations of discoveryReceiver kept by the platform
MaxFin == 1       \* ACTION_DISCOVERY_FINISHED broadcasts sent, not yet delivered
MaxPendingAtTap == 1   \* messages still in flight when the user taps a button
MaxTaps == 3      \* button presses of the user (calls of a client) in a session
MaxSignals == 3   \* signals the platform originates in a session

\* ------------------------------------------------------- program constants
BOND_NONE == 10
BOND_BONDING == 11
BOND_BONDED == 12
VARIANT_PIN == 0
VARIANT_PASSKEY_CONFIRMATION == 2
VARIANT_CONSENT == 3
DEFAULT_PIN == "0000"
InitialPin == "0000"

BondStates == {BOND_NONE, BOND_BONDING, BOND_BONDED}
Pins == {"0000", "1234"}
\* EXTRA_PAIRING_VARIANT values: the three the responder knows, PASSKEY (1)
\* and an unknown one (99)
Variants == {0, 1, 2, 3, 99}

\* --------------------------------------------------------- strings as data
\* A string is a sequence of characters, so that toUpperCase, startsWith and
\* includes are computed and not assumed.
Str_ZQ == <<"Z", "Q">>
Str_ZEBRA == <<"Z", "E", "B", "R", "A">>
Str_ZD == <<"Z", "D">>
Str_Unknown == <<"U", "n", "k", "n", "o", "w", "n">>
Str_zq220 == <<"z", "q", "2", "2", "0">>
Str_Printer == <<"P", "r", "i", "n", "t", "e", "r">>
\* hardware addresses "00:a0:96:01:02:03" (a Zebra OUI) and "5c:f3:70:0a:0b:0c"
AddrX == <<"0", "0", ":", "a", "0", ":", "9", "6", ":", "0", "1">>
AddrY == <<"5", "c", ":", "f", "3", ":", "7", "0", ":", "0", "a">>
NoAddr == <<>>
NoName == <<>>
Addrs == {AddrX, AddrY}

\* the name the platform knows for a device once it has resolved it; until
\* then device.name is null
RealName(a) == IF a = AddrX THEN Str_Printer ELSE Str_zq220
PlatformNames(a) == {NoName, RealName(a)}

UpperChar(c) ==
    CASE c = "a" -> "A" [] c = "b" -> "B" [] c = "c" -> "C" [] c = "d" -> "D"
      [] c = "e" -> "E" [] c = "f" -> "F" [] c = "i" -> "I" [] c = "k" -> "K"
      [] c = "n" -> "N" [] c = "o" -> "O" [] c = "q" -> "Q" [] c = "r" -> "R"
      [] c = "t" -> "T" [] c = "w" -> "W" [] c = "z" -> "Z"
      [] OTHER -> c

toUpperCase(s) == [i \in 1..Len(s) |-> UpperChar(s[i])]
startsWith(s, p) == Len(p) <= Len(s) /\ SubSeq(s, 1, Len(p)) = p
includes(s, p) ==
    \E i \in 1..(Len(s) - Len(p) + 1) : SubSeq(s, i, i + Len(p) - 1) = p

zebraOuis ==
    { <<"0", "0", ":", "A", "0", ":", "9", "6">>,
      <<"0", "0", ":", "0", "7", ":", "4", "D">>,
      <<"A", "C", ":", "3", "F", ":", "A", "4">> }

\* App.tsx isZebraDevice: a Zebra OUI prefix or a Zebra-like name
isZebraDevice(device) ==
    LET name == toUpperCase(device.name)
        address == toUpperCase(device.address)
        isZebraOui == \E oui \in zebraOuis : startsWith(address, oui)
        isZebraName == \/ includes(name, Str_ZQ)
                       \/ includes(name, Str_ZEBRA)
                       \/ includes(name, Str_ZD)
    IN  isZebraOui \/ isZebraName

\* device.name ?: "Unknown"
NameOrUnknown(n) == IF n = NoName THEN Str_Unknown ELSE n

\* --------------------------------------------------------------- the state
VARIABLES
    adapter,        \* platform: "absent" (no radio), "off", "on"
    btPerm,         \* platform: BLUETOOTH_SCAN / BLUETOOTH_CONNECT granted
    bond,           \* platform: bond state of each device
    scanActive,     \* platform: a discovery started by startDiscovery runs
    finPending,     \* platform: ACTION_DISCOVERY_FINISHED sent, not delivered
    life,           \* native module: "constructed", "live", "destroyed"
    isDiscovering,  \* BluetoothPairingModule.isDiscovering
    discRegs,       \* registrations of discoveryReceiver
    bondRegs,       \* registrations of bondReceiver
    pin,            \* PairingReceiver.pin
    requestedPin,   \* history: the pin argument of the latest pairDevice call
    journey,        \* history: how far the latest accepted createBond got
    toJs,           \* events and promise settlements on their way to JS
    ui,             \* App: "unmounted", "noperm" (permGranted false),
                    \* "granted" (before loadBondedDevices), "ready"
    scanning,       \* App: useState scanning
    devices,        \* App: useState devices, an array of DeviceState
    taps,           \* button presses so far
    signals,        \* platform signals so far
    last            \* the step just taken: handler, inputs, outcome

platformVars == <<adapter, btPerm, bond, scanActive, finPending>>
moduleVars == <<life, isDiscovering, discRegs, bondRegs, pin, requestedPin>>
nativeVars == <<life, isDiscovering, discRegs, bondRegs, pin, requestedPin, journey>>
jsVars == <<ui, scanning, devices>>
budgetVars == <<taps, signals>>
vars == <<adapter, btPerm, bond, scanActive, finPending, life, isDiscovering,
          discRegs, bondRegs, pin, requestedPin, journey, toJs, ui, scanning, devices,
          taps, signals, last>>

\* ----------------------------------------------------------------- records
\* One shape for every message of the bridge: an event (name = the event's
\* name) or the settlement of a promise (name = the @ReactMethod).
Msg(kind, name, address, devName, bondState, ok, value, list) ==
    [kind |-> kind, name |-> name, address |-> address, devName |-> devName,
     bondState |-> bondState, ok |-> ok, value |-> value, list |-> list]
Event(name, address, devName, bondState) ==
    Msg("event", name, address, devName, bondState, TRUE, "", <<>>)
Resolve(method, address, value) ==
    Msg("settle", method, address, NoName, 0, TRUE, value, <<>>)
ResolveList(method, list) ==
    Msg("settle", method, NoAddr, NoName, 0, TRUE, "list", list)
Reject(method, address, code) ==
    Msg("settle", method, address, NoName, 0, FALSE, code, <<>>)

\* The step just taken. js: the App handler that ran; op: the @ReactMethod
\* called or the platform signal handled; settles: the @ReactMethod whose
\* settlement the handler resumed on; result: the promise's outcome;
\* emitted: the events sent by the native side in this step; repeat: the
\* step before was the same op; calls: what the Pairing Responder called;
\* newState, prevState: the bond signal of the step; removed: the records
\* the step took out of `devices`; ok: the promise resolved; exception: what
\* a platform call of the @ReactMethod raised; escaped: an exception left
\* the handler; event: the event that reached App in this step.
NoMsg == Msg("", "", NoAddr, NoName, 0, TRUE, "", <<>>)
NoLast ==
    [js |-> "", op |-> "", settles |-> "", address |-> NoAddr,
     newState |-> 0, prevState |-> 0,
     variant |-> 0, pin |-> "", result |-> "", emitted |-> <<>>,
     repeat |-> FALSE, calls |-> <<>>, removed |-> {},
     ok |-> TRUE, exception |-> "", escaped |-> FALSE, event |-> NoMsg,
     devName |-> NoName]

\* The bonding that the latest accepted createBond started, and its stage:
\* "started" (pairDevice resolved BONDING_STARTED), "challenged" (a PIN
\* challenge of the device was answered with setPin and suppressed), "bonded"
\* (BONDING -> BONDED was broadcast and onPairingSuccess sent).
NoJourney == [address |-> NoAddr, stage |-> ""]
Journey(a, stage) == [address |-> a, stage |-> stage]

Init ==
    /\ adapter \in {"absent", "off", "on"}
    /\ btPerm = FALSE
    /\ bond \in [Addrs -> {BOND_NONE, BOND_BONDED}]
    /\ scanActive = FALSE
    /\ finPending = 0
    /\ life = "constructed"
    /\ isDiscovering = FALSE
    /\ discRegs = 0
    /\ bondRegs = 0
    /\ pin = InitialPin
    /\ requestedPin = InitialPin
    /\ journey = NoJourney
    /\ toJs = <<>>
    /\ ui = "unmounted"
    /\ scanning = FALSE
    /\ devices = <<>>
    /\ taps = 0
    /\ signals = 0
    /\ last = NoLast

\* a step the platform originates, a step the user (or a client) originates
Signal == signals < MaxSignals /\ signals' = signals + 1 /\ UNCHANGED taps
Tap == taps < MaxTaps /\ taps' = taps + 1 /\ UNCHANGED signals

\* the records of `devices` whose address the step leaves no record of
Removed ==
    {d \in {devices[i] : i \in DOMAIN devices} :
        \A j \in DOMAIN devices' : devices'[j].address # d.address}

\* ------------------------------------------------------------- the bridge
\* sendEvent and promise.resolve/reject: the messages join the FIFO to JS.
\* While App is not mounted nothing is subscribed and an event goes nowhere;
\* a caller other than App takes the settlement as the call's result.
Bridge(msgs) == IF ui = "unmounted" THEN toJs ELSE toJs \o msgs
Room(msgs) == ui # "unmounted" => Len(toJs) + Len(msgs) <= MaxQueue

\* ------------------------------------------------------------ the platform
RECURSIVE Times(_, _)
Times(s, n) == IF n = 0 THEN <<>> ELSE s \o Times(s, n - 1)

\* adapter.cancelDiscovery(): the scan stops; the platform sends
\* ACTION_DISCOVERY_FINISHED to the receivers registered at that moment
FinAfterCancel == IF scanActive /\ discRegs > 0 THEN finPending + 1 ELSE finPending

\* BluetoothDevice.getBondState(): BOND_NONE while the radio is off
ReadBondState(a) == IF adapter = "on" THEN bond[a] ELSE BOND_NONE

\* --------------------------------------------------- Bond State Observer
\* bondReceiver.onReceive, the `when (bondState)`: the event to send, or ""
BondOutcome_FailedOnAnyNone(bondState, prevState) ==
    IF bondState = BOND_BONDED THEN "onPairingSuccess"
    ELSE IF bondState = BOND_NONE THEN "onPairingFailed"
    ELSE ""

BondOutcome_SuccessOnBonding(bondState, prevState) ==
    IF bondState = BOND_BONDED \/ bondState = BOND_BONDING THEN "onPairingSuccess"
    ELSE IF bondState = BOND_NONE /\ prevState = BOND_BONDING THEN "onPairingFailed"
    ELSE ""

BondOutcome(bondState, prevState) ==
    IF bondState = BOND_BONDED THEN "onPairingSuccess"
    ELSE IF bondState = BOND_NONE /\ prevState = BOND_BONDING THEN "onPairingFailed"
    ELSE ""

bondReceiver_onReceive_Twice(a, n, bondState, prevState) ==
    IF ~btPerm THEN <<>>
    ELSE LET e == BondOutcome(bondState, prevState)
         IN  IF e = "" THEN <<>>
             ELSE <<Event(e, a, NameOrUnknown(n), bondState),
                    Event(e, a, NameOrUnknown(n), bondState)>>

\* bondReceiver.onReceive for one delivery of ACTION_BOND_STATE_CHANGED: the
\* events sent. Reading it.name without BLUETOOTH_CONNECT raises
\* SecurityException, which the handler catches before anything is sent.
bondReceiver_onReceive(a, n, bondState, prevState) ==
    IF ~btPerm THEN <<>>
    ELSE LET e == BondOutcome(bondState, prevState)
         IN  IF e = "" THEN <<>>
             ELSE <<Event(e, a, NameOrUnknown(n), bondState)>>

\* the platform delivers the broadcast once per registration
\* (the platform has resolved the name of a device by the time it bonds)
BroadcastBond(a, bondState, prevState) ==
    Times(bondReceiver_onReceive(a, RealName(a), bondState, prevState), bondRegs)

BondTransitions ==
    { <<BOND_NONE, BOND_BONDING>>, <<BOND_BONDING, BOND_BONDED>>,
      <<BOND_BONDING, BOND_NONE>>, <<BOND_BONDED, BOND_NONE>> }

\* The platform changes a device's bond state (a bonding this app asked for
\* completes or fails, or one started from the system settings or by the
\* remote device) and broadcasts ACTION_BOND_STATE_CHANGED.
BondStateChanged(a, new) ==
    /\ life = "live"
    /\ Signal
    /\ adapter = "on"
    /\ <<bond[a], new>> \in BondTransitions
    /\ LET ev == BroadcastBond(a, new, bond[a])
       IN  /\ Room(ev)
           /\ toJs' = Bridge(ev)
           /\ last' = [NoLast EXCEPT !.op = "bondStateChanged", !.address = a,
                                     !.newState = new, !.prevState = bond[a],
                                     !.emitted = ev]
    /\ bond' = [bond EXCEPT ![a] = new]
    /\ journey' = IF journey.address # a THEN journey
                  ELSE IF journey.stage = "challenged" /\ new = BOND_BONDED
                       THEN Journey(a, "bonded")
                       ELSE NoJourney
    /\ UNCHANGED <<adapter, btPerm, scanActive, finPending, moduleVars, jsVars>>

\* The platform repeats the broadcast it just sent (signals can duplicate).
DuplicateBondStateChanged ==
    /\ life = "live"
    /\ Signal
    /\ last.op = "bondStateChanged"
    /\ ~last.repeat
    /\ LET ev == BroadcastBond(last.address, last.newState, last.prevState)
       IN  /\ Room(ev)
           /\ toJs' = Bridge(ev)
           /\ last' = [last EXCEPT !.emitted = ev, !.repeat = TRUE]
    /\ UNCHANGED <<platformVars, nativeVars, jsVars>>

\* ------------------------------------------------------ Pairing Responder
\* PairingReceiver.onReceive, the `when (variant)`: the resolution call
ResolutionCall(variant) ==
    IF variant = VARIANT_PIN THEN "setPin" ELSE "setPairingConfirmation"

\* which call of the `when` raises: none, the resolution call (setPin needs
\* BLUETOOTH_CONNECT, setPairingConfirmation BLUETOOTH_PRIVILEGED), or
\* abortBroadcast (the broadcast was not sent ordered)
Throws == {"", "resolution", "abortBroadcast"}

PairingReceiver_onReceive_Again(variant, threw) ==
    LET call == [api |-> ResolutionCall(variant),
                 pin |-> IF variant = VARIANT_PIN THEN pin ELSE "",
                 threw |-> (threw = "resolution")]
        abort == [api |-> "abortBroadcast", pin |-> "",
                  threw |-> (threw = "abortBroadcast")]
    IN  IF threw = "resolution" THEN <<call, call>> ELSE <<call, abort>>

\* PairingReceiver.onReceive, the try block, for a challenge of a device: the
\* platform calls it makes. When the resolution call raises, the catch logs
\* it and abortBroadcast is not reached.
PairingReceiver_onReceive(variant, threw) ==
    LET call == [api |-> ResolutionCall(variant),
                 pin |-> IF variant = VARIANT_PIN THEN pin ELSE "",
                 threw |-> (threw = "resolution")]
        abort == [api |-> "abortBroadcast", pin |-> "",
                  threw |-> (threw = "abortBroadcast")]
    IN  IF threw = "resolution" THEN <<call>> ELSE <<call, abort>>

Escapes_Uncaught(threw) == threw # ""

\* whether an exception leaves onReceive: every call that can raise is made
\* inside try { when (variant) ... } catch (e: Exception)
Escapes(threw) == FALSE

\* the challenge was a PIN request, answered with setPin and suppressed
AutoResolved(variant, calls) ==
    /\ variant = VARIANT_PIN
    /\ Len(calls) = 2
    /\ calls[1].api = "setPin" /\ ~calls[1].threw
    /\ calls[2].api = "abortBroadcast" /\ ~calls[2].threw

\* ACTION_PAIRING_REQUEST arrives while a device is bonding. The platform
\* sends it only to receivers that hold BLUETOOTH_CONNECT, so the device.name
\* read by the Log.d before the try block returns.
PairingRequest(a, variant, threw) ==
    /\ life = "live"
    /\ Signal
    /\ adapter = "on"
    /\ btPerm
    /\ bond[a] = BOND_BONDING
    /\ LET calls == PairingReceiver_onReceive(variant, threw)
       IN  /\ last' = [NoLast EXCEPT !.op = "pairingRequest", !.address = a,
                                     !.variant = variant, !.pin = pin,
                                     !.calls = calls,
                                     !.escaped = Escapes(threw)]
           /\ journey' = IF journey = Journey(a, "started") /\ AutoResolved(variant, calls)
                         THEN Journey(a, "challenged")
                         ELSE journey
    /\ UNCHANGED <<platformVars, moduleVars, toJs, jsVars>>

\* ---------------------------------------------------- Discovery Listener
handleDeviceFound_RawName(a, n) ==
    IF ~btPerm THEN <<>>
    ELSE <<Event("onDeviceFound", a, n, ReadBondState(a))>>

\* handleDeviceFound: one onDeviceFound event; device.name raises
\* SecurityException without BLUETOOTH_CONNECT and nothing is sent
handleDeviceFound(a, n) ==
    IF ~btPerm THEN <<>>
    ELSE <<Event("onDeviceFound", a, NameOrUnknown(n), ReadBondState(a))>>

\* ACTION_FOUND during a scan, delivered once per registration
DeviceFound(a, n) ==
    /\ life = "live"
    /\ Signal
    /\ adapter = "on"
    /\ scanActive
    /\ discRegs > 0
    /\ LET ev == Times(handleDeviceFound(a, n), discRegs)
       IN  /\ Room(ev)
           /\ toJs' = Bridge(ev)
           /\ last' = [NoLast EXCEPT !.op = "deviceFound", !.address = a,
                                     !.devName = n, !.emitted = ev]
    /\ UNCHANGED <<platformVars, nativeVars, jsVars>>

\* The scan ends on its own; the platform sends ACTION_DISCOVERY_FINISHED.
ScanFinished ==
    /\ life = "live"
    /\ Signal
    /\ scanActive
    /\ FinAfterCancel <= MaxFin
    /\ scanActive' = FALSE
    /\ finPending' = FinAfterCancel
    /\ last' = [NoLast EXCEPT !.op = "scanFinished"]
    /\ UNCHANGED <<adapter, btPerm, bond, nativeVars, toJs, jsVars>>

\* discoveryReceiver.onReceive(ACTION_DISCOVERY_FINISHED), once per
\* registration: isDiscovering = false, then the event
DiscoveryFinished ==
    /\ life = "live"
    /\ UNCHANGED budgetVars
    /\ finPending > 0
    /\ LET ev == Times(<<Event("onDiscoveryFinished", NoAddr, NoName, 0)>>, discRegs)
       IN  /\ Room(ev)
           /\ toJs' = Bridge(ev)
           /\ last' = [NoLast EXCEPT !.op = "discoveryFinished", !.emitted = ev]
    /\ finPending' = finPending - 1
    /\ isDiscovering' = FALSE
    /\ UNCHANGED <<adapter, btPerm, bond, scanActive, life, discRegs, bondRegs,
                   pin, requestedPin, journey, jsVars>>

\* ------------------------------------------------ the user and the radio
RadioSwitch ==
    /\ life = "live"
    /\ Signal
    /\ adapter \in {"off", "on"}
    /\ ~scanActive
    /\ \A a \in Addrs : bond[a] # BOND_BONDING
    /\ adapter' = IF adapter = "on" THEN "off" ELSE "on"
    /\ last' = [NoLast EXCEPT !.op = "radioSwitch"]
    /\ UNCHANGED <<btPerm, bond, scanActive, finPending, nativeVars, toJs, jsVars>>

\* ------------------------------------------------------- Adapter Gateway
\* A @ReactMethod ran: the events its platform calls caused, then the
\* settlement of its promise, go to JS. h: the App handler that called.
SettledStep(h, op, a, p, new, prev, ev, s, exception) ==
    /\ Room(ev \o <<s>>)
    /\ toJs' = Bridge(ev \o <<s>>)
    /\ last' = [NoLast EXCEPT !.js = h, !.op = op, !.address = a, !.pin = p,
                              !.newState = new, !.prevState = prev,
                              !.result = s.value, !.emitted = ev,
                              !.repeat = (last.op = op),
                              !.removed = Removed,
                              !.ok = s.ok, !.exception = exception]
SettledSignal(h, op, a, p, new, prev, ev, s) ==
    SettledStep(h, op, a, p, new, prev, ev, s, "")
Settled(h, op, a, p, ev, s) == SettledSignal(h, op, a, p, 0, 0, ev, s)
Raised(h, op, a, p, s, exception) == SettledStep(h, op, a, p, 0, 0, <<>>, s, exception)

\* initialize(): registerBondReceiver()
initialize ==
    /\ life = "constructed"
    /\ UNCHANGED budgetVars
    /\ life' = "live"
    /\ bondRegs' = bondRegs + 1
    /\ last' = [NoLast EXCEPT !.op = "initialize"]
    /\ UNCHANGED <<platformVars, isDiscovering, discRegs, pin, requestedPin, journey,
                   toJs, jsVars>>

\* onCatalystInstanceDestroy(): when isDiscovering is set the first try block
\* calls cancelDiscovery() before unregisterReceiver(discoveryReceiver); the
\* call goes to the Bluetooth service and either returns or raises
\* (SecurityException when BLUETOOTH_SCAN is no longer held), and when it
\* raises the block is left before the receiver is unregistered. The second
\* try block unregisters bondReceiver in either case, and an
\* IllegalArgumentException of unregisterReceiver (receiver not registered)
\* is swallowed by the catch.
onCatalystInstanceDestroy ==
    /\ life = "live"
    /\ UNCHANGED budgetVars
    /\ life' = "destroyed"
    /\ bondRegs' = 0
    \* the JS context goes with the instance
    /\ toJs' = <<>>
    /\ ui' = "unmounted"
    /\ scanning' = FALSE
    /\ devices' = <<>>
    /\ journey' = NoJourney
    /\ \E raised \in BOOLEAN :
        LET cancels == isDiscovering
        IN  /\ raised => (cancels /\ adapter = "on")
            /\ scanActive' = IF cancels /\ ~raised THEN FALSE ELSE scanActive
            /\ discRegs' = IF raised THEN discRegs ELSE 0
            /\ finPending' = IF raised THEN finPending ELSE 0
            /\ last' = [NoLast EXCEPT !.op = "onCatalystInstanceDestroy",
                                      !.removed = Removed,
                                      !.exception = IF raised THEN "SecurityException"
                                                    ELSE IF discRegs = 0
                                                    THEN "IllegalArgumentException"
                                                    ELSE ""]
    /\ UNCHANGED <<adapter, btPerm, bond, isDiscovering, pin, requestedPin>>

startDiscovery_settle_Disabled(started) ==
    IF started THEN Resolve("startDiscovery", NoAddr, "true")
    ELSE Reject("startDiscovery", NoAddr, "BT_DISABLED")

\* startDiscovery after `isDiscovering = adapter.startDiscovery()`
startDiscovery_settle(started) ==
    IF started THEN Resolve("startDiscovery", NoAddr, "true")
    ELSE Reject("startDiscovery", NoAddr, "DISCOVERY_FAILED")

startDiscovery(h) ==
    \/ /\ adapter = "absent"
       /\ Settled(h, "startDiscovery", NoAddr, "", <<>>,
                  Reject("startDiscovery", NoAddr, "BT_UNAVAILABLE"))
       /\ UNCHANGED <<platformVars, nativeVars>>
    \/ /\ adapter = "off"
       /\ Settled(h, "startDiscovery", NoAddr, "", <<>>,
                  Reject("startDiscovery", NoAddr, "BT_DISABLED"))
       /\ UNCHANGED <<platformVars, nativeVars>>
    \/ \* cancelDiscovery() or startDiscovery() raises SecurityException
       /\ adapter = "on" /\ ~btPerm
       /\ discRegs < MaxRegs
       /\ discRegs' = IF isDiscovering THEN discRegs ELSE discRegs + 1
       /\ Settled(h, "startDiscovery", NoAddr, "", <<>>,
                  Reject("startDiscovery", NoAddr, "SECURITY_ERROR"))
       /\ UNCHANGED <<platformVars, life, isDiscovering, bondRegs, pin, requestedPin,
                      journey>>
    \/ /\ adapter = "on" /\ btPerm
       /\ discRegs < MaxRegs
       /\ \E started \in BOOLEAN :
            LET scan1 == IF isDiscovering THEN FALSE ELSE scanActive
                fin1 == IF isDiscovering THEN FinAfterCancel ELSE finPending
            IN  /\ fin1 <= MaxFin
                /\ finPending' = fin1
                /\ discRegs' = discRegs + 1
                /\ isDiscovering' = started
                /\ scanActive' = (started \/ scan1)
                /\ Settled(h, "startDiscovery", NoAddr, "", <<>>,
                           startDiscovery_settle(started))
       /\ UNCHANGED <<adapter, btPerm, bond, life, bondRegs, pin, requestedPin, journey>>

RegsAfterUnregister_One(regs) == IF regs > 0 THEN regs - 1 ELSE 0

\* unregisterReceiver(discoveryReceiver) drops every registration of it
RegsAfterUnregister(regs) == 0

stopDiscovery(h) ==
    \/ /\ adapter = "absent"
       /\ Settled(h, "stopDiscovery", NoAddr, "", <<>>,
                  Reject("stopDiscovery", NoAddr, "BT_UNAVAILABLE"))
       /\ UNCHANGED <<platformVars, nativeVars>>
    \/ \* cancelDiscovery() raises SecurityException
       /\ adapter = "on" /\ ~btPerm
       /\ Settled(h, "stopDiscovery", NoAddr, "", <<>>,
                  Reject("stopDiscovery", NoAddr, "ERROR"))
       /\ UNCHANGED <<platformVars, nativeVars>>
    \/ /\ adapter = "off" \/ (adapter = "on" /\ btPerm)
       /\ scanActive' = FALSE
       /\ isDiscovering' = FALSE
       /\ discRegs' = RegsAfterUnregister(discRegs)
       /\ finPending' = 0
       /\ Settled(h, "stopDiscovery", NoAddr, "", <<>>,
                  Resolve("stopDiscovery", NoAddr, "true"))
       /\ UNCHANGED <<adapter, btPerm, bond, life, bondRegs, pin, requestedPin, journey>>

\* adapter.bondedDevices as the array getBondedDevices resolves: the bonded
\* devices in the set's iteration order, each with name ?: "Unknown"
BondedArrays ==
    LET B == {a \in Addrs : bond[a] = BOND_BONDED}
    IN  { [i \in 1..Cardinality(B) |->
              [address |-> f[i],
               name |-> NameOrUnknown(IF g[f[i]] THEN RealName(f[i]) ELSE NoName),
               bondState |-> bond[f[i]]]] :
          f \in {x \in [1..Cardinality(B) -> B] :
                    \A i, j \in 1..Cardinality(B) : x[i] = x[j] => i = j},
          g \in [Addrs -> BOOLEAN] }

getBondedDevices(h) ==
    /\ \/ /\ adapter = "absent"
          /\ Settled(h, "getBondedDevices", NoAddr, "", <<>>,
                     Reject("getBondedDevices", NoAddr, "BT_UNAVAILABLE"))
       \/ /\ adapter = "on" /\ ~btPerm
          /\ Settled(h, "getBondedDevices", NoAddr, "", <<>>,
                     Reject("getBondedDevices", NoAddr, "SECURITY_ERROR"))
       \/ /\ adapter = "off"
          /\ Settled(h, "getBondedDevices", NoAddr, "", <<>>,
                     ResolveList("getBondedDevices", <<>>))
       \/ /\ adapter = "on" /\ btPerm
          /\ \E l \in BondedArrays :
                Settled(h, "getBondedDevices", NoAddr, "", <<>>,
                        ResolveList("getBondedDevices", l))
    /\ UNCHANGED <<platformVars, nativeVars>>

IsAlreadyBonded_Never(a) == FALSE

\* pairDevice: device.bondState == BluetoothDevice.BOND_BONDED
IsAlreadyBonded(a) == ReadBondState(a) = BOND_BONDED

\* what pairDevice(address, pin) leaves in PairingReceiver.pin: the method
\* never assigns it
PinAfterPairDevice(p) == pin

pairDevice(h, address, p) ==
    \/ /\ adapter = "absent"
       /\ Settled(h, "pairDevice", address, p, <<>>,
                  Reject("pairDevice", address, "BT_UNAVAILABLE"))
       /\ UNCHANGED <<platformVars, nativeVars>>
    \/ /\ adapter # "absent"
       /\ LET raisedInCancel == isDiscovering /\ adapter = "on" /\ ~btPerm
              cancelled == isDiscovering /\ ~raisedInCancel
              alreadyBonded == IsAlreadyBonded(address)
          IN  /\ cancelled => FinAfterCancel <= MaxFin
              /\ scanActive' = IF cancelled THEN FALSE ELSE scanActive
              /\ finPending' = IF cancelled THEN FinAfterCancel ELSE finPending
              /\ isDiscovering' = IF cancelled THEN FALSE ELSE isDiscovering
              /\ pin' = PinAfterPairDevice(p)
              /\ requestedPin' = p
              /\ \/ \* cancelDiscovery() or device.bondState raises
                    /\ adapter = "on" /\ ~btPerm
                    /\ Settled(h, "pairDevice", address, p, <<>>,
                               Reject("pairDevice", address, "SECURITY_ERROR"))
                    /\ UNCHANGED <<bond, journey>>
                 \/ /\ adapter = "on" /\ btPerm /\ alreadyBonded
                    /\ Settled(h, "pairDevice", address, p, <<>>,
                               Resolve("pairDevice", address, "ALREADY_BONDED"))
                    /\ UNCHANGED <<bond, journey>>
                 \/ \* createBond() accepted: the device starts bonding
                    /\ adapter = "on" /\ btPerm /\ bond[address] = BOND_NONE
                    /\ bond' = [bond EXCEPT ![address] = BOND_BONDING]
                    /\ journey' = Journey(address, "started")
                    /\ SettledSignal(h, "pairDevice", address, p,
                               BOND_BONDING, BOND_NONE,
                               BroadcastBond(address, BOND_BONDING, BOND_NONE),
                               Resolve("pairDevice", address, "BONDING_STARTED"))
                 \/ \* createBond() returns false
                    /\ adapter = "off" \/ (btPerm /\ ~alreadyBonded)
                    /\ Settled(h, "pairDevice", address, p, <<>>,
                               Reject("pairDevice", address, "BOND_FAILED"))
                    /\ UNCHANGED <<bond, journey>>
       /\ UNCHANGED <<adapter, btPerm, life, discRegs, bondRegs>>

ReflectionExceptions == {"NoSuchMethodException", "InvocationTargetException"}

\* unpairDevice, the catch clauses: the code the promise is rejected with
unpairDevice_caught(e) == IF e = "SecurityException" THEN "SECURITY_ERROR" ELSE "ERROR"

unpairDevice(h, address) ==
    \/ /\ adapter = "absent"
       /\ Settled(h, "unpairDevice", address, "", <<>>,
                  Reject("unpairDevice", address, "BT_UNAVAILABLE"))
       /\ UNCHANGED <<platformVars, nativeVars>>
    \/ \* the platform has no removeBond method and getMethod raises
       \* NoSuchMethodException, or invoke raises InvocationTargetException
       \* (around the SecurityException of removeBond without
       \* BLUETOOTH_CONNECT): catch (e: Exception)
       /\ adapter # "absent"
       /\ \E e \in ReflectionExceptions :
             /\ e = "InvocationTargetException" => (adapter = "on" /\ ~btPerm)
             /\ Raised(h, "unpairDevice", address, "",
                       Reject("unpairDevice", address, unpairDevice_caught(e)), e)
       /\ UNCHANGED <<platformVars, nativeVars>>
    \/ \* removeBond() returns false
       /\ adapter = "off" \/ (adapter = "on" /\ btPerm)
       /\ Settled(h, "unpairDevice", address, "", <<>>,
                  Reject("unpairDevice", address, "UNPAIR_FAILED"))
       /\ UNCHANGED <<platformVars, nativeVars>>
    \/ \* removeBond() returns true: the bond (or the bonding) ends
       /\ adapter = "on" /\ btPerm /\ bond[address] # BOND_NONE
       /\ bond' = [bond EXCEPT ![address] = BOND_NONE]
       /\ SettledSignal(h, "unpairDevice", address, "",
                  BOND_NONE, bond[address],
                  BroadcastBond(address, BOND_NONE, bond[address]),
                  Resolve("unpairDevice", address, "true"))
       /\ journey' = IF journey.address = address THEN NoJourney ELSE journey
       /\ UNCHANGED <<adapter, btPerm, scanActive, finPending, moduleVars>>

\* The user grants the Bluetooth permissions in the system settings.
GrantPermission ==
    /\ life = "live"
    /\ UNCHANGED budgetVars
    /\ ~btPerm
    /\ btPerm' = TRUE
    /\ last' = [NoLast EXCEPT !.op = "grantPermission"]
    /\ UNCHANGED <<adapter, bond, scanActive, finPending, nativeVars, toJs, jsVars>>

\* ------------------------------------------- App.tsx: Device List Reconciler
DeviceState(device, pairingStatus) ==
    [address |-> device.address, name |-> device.name,
     bondState |-> device.bondState, pairingStatus |-> pairingStatus]

MapAddress_All(prev, address, fields) ==
    [i \in 1..Len(prev) |->
        [k \in DOMAIN prev[i] |->
            IF k \in DOMAIN fields THEN fields[k] ELSE prev[i][k]]]

RECURSIVE Map(_, _)
\* prev.map(d => d.address === address ? change(d) : d), with change(d) given
\* as the fields to overwrite
MapAddress(prev, address, fields) ==
    [i \in 1..Len(prev) |->
        IF prev[i].address = address
        THEN [k \in DOMAIN prev[i] |->
                 IF k \in DOMAIN fields THEN fields[k] ELSE prev[i][k]]
        ELSE prev[i]]
Map(prev, status) ==
    IF prev = <<>> THEN <<>>
    ELSE <<DeviceState(Head(prev), status)>> \o Map(Tail(prev), status)

IsBondedRecord(d) == d.bondState = BOND_BONDED
IsZebraMap(d) == isZebraDevice(d)

onDeviceFound_NoDedup(prev, device) ==
    IF ~isZebraDevice(device) THEN prev
    ELSE Append(prev, DeviceState(device, "idle"))

\* onDeviceFound: a record is added unless the device is no Zebra device or
\* its address is already there
onDeviceFound(prev, device) ==
    IF ~isZebraDevice(device) THEN prev
    ELSE IF \E i \in 1..Len(prev) : prev[i].address = device.address THEN prev
    ELSE Append(prev, DeviceState(device, "idle"))

onPairingSuccess_StatusOnly(prev, address) ==
    MapAddress(prev, address, [pairingStatus |-> "success"])

onPairingSuccess(prev, address) ==
    MapAddress(prev, address, [bondState |-> BOND_BONDED, pairingStatus |-> "success"])

onPairingFailed_Retry(prev, address) ==
    MapAddress(prev, address, [pairingStatus |-> "pairing"])

onPairingFailed(prev, address) ==
    MapAddress(prev, address, [pairingStatus |-> "failed"])

\* loadBondedDevices, after getBondedDevices resolved
loadBondedDevices_resolved(bonded) ==
    Map(SelectSeq(bonded, IsZebraMap), "idle")

\* handleScan, not scanning: setDevices(prev => prev.filter(bonded))
KeepAll(prev) == prev
handleScan_filter(prev) == SelectSeq(prev, IsBondedRecord)

\* handlePair before the await: the record's status becomes 'pairing'
handlePair_begin(prev, address) ==
    MapAddress(prev, address, [pairingStatus |-> "pairing"])

handlePair_settled_SuccessOnResolve(prev, m) ==
    IF m.ok
    THEN MapAddress(prev, m.address,
                    [bondState |-> BOND_BONDED, pairingStatus |-> "success"])
    ELSE MapAddress(prev, m.address, [pairingStatus |-> "failed"])

handlePair_settled_IgnoreReject(prev, m) ==
    IF m.ok /\ m.value = "ALREADY_BONDED"
    THEN MapAddress(prev, m.address,
                    [bondState |-> BOND_BONDED, pairingStatus |-> "success"])
    ELSE prev

\* handlePair after the await
handlePair_settled(prev, m) ==
    IF m.ok
    THEN IF m.value = "ALREADY_BONDED"
         THEN MapAddress(prev, m.address,
                         [bondState |-> BOND_BONDED, pairingStatus |-> "success"])
         ELSE prev
    ELSE MapAddress(prev, m.address, [pairingStatus |-> "failed"])

\* handleUnpair after the await
RemoveAddress(prev, address) ==
    LET keep(d) == d.address # address IN SelectSeq(prev, keep)
handleUnpair_settled_Always(prev, m) == RemoveAddress(prev, m.address)

handleUnpair_settled_MarkFailed(prev, m) ==
    IF m.ok THEN RemoveAddress(prev, m.address)
    ELSE MapAddress(prev, m.address, [pairingStatus |-> "failed"])

handleUnpair_settled(prev, m) ==
    IF m.ok THEN RemoveAddress(prev, m.address) ELSE prev

\* DeviceRow: the pair button is shown for a record that is not bonded and
\* is enabled unless isPairing; the unpair button is shown for a bonded one
PairEnabled(d) ==
    /\ d.bondState # BOND_BONDED
    /\ ~(d.pairingStatus = "pairing" \/ d.bondState = BOND_BONDING)
UnpairShown(d) == d.bondState = BOND_BONDED

\* the mount effect and the "Berechtigungen erteilen" button:
\* requestPermissions(), the user answers the system dialog
requestPermissions(grant) ==
    /\ life = "live"
    /\ UNCHANGED budgetVars
    /\ ui \in {"unmounted", "noperm"}
    /\ btPerm' = (btPerm \/ grant)
    /\ ui' = IF ~btPerm' THEN "noperm"
             ELSE IF ui = "unmounted" THEN "granted" ELSE "ready"
    /\ last' = [NoLast EXCEPT !.js = "requestPermissions"]
    /\ UNCHANGED <<adapter, bond, scanActive, finPending, nativeVars, toJs,
                   scanning, devices>>

\* the mount effect, permissions granted: loadBondedDevices() up to its await
loadBondedDevices ==
    /\ life = "live"
    /\ UNCHANGED budgetVars
    /\ ui = "granted"
    /\ ui' = "ready"
    /\ UNCHANGED <<scanning, devices>>
    /\ getBondedDevices("loadBondedDevices")

\* handleScan while scanning, up to `await stopDiscovery()`
handleScan_stop ==
    /\ life = "live" /\ ui = "ready"
    /\ Tap
    /\ Len(toJs) <= MaxPendingAtTap
    /\ scanning
    /\ UNCHANGED jsVars
    /\ stopDiscovery("handleScan")

\* handleScan while not scanning, up to `await startDiscovery()`
handleScan_start ==
    /\ life = "live" /\ ui = "ready"
    /\ Tap
    /\ Len(toJs) <= MaxPendingAtTap
    /\ ~scanning
    /\ devices' = handleScan_filter(devices)
    /\ scanning' = TRUE
    /\ startDiscovery("handleScan")
    /\ UNCHANGED ui

\* the pair button of a row, handlePair up to `await pairDevice()`
handlePair(address) ==
    /\ life = "live" /\ ui = "ready"
    /\ Tap
    /\ Len(toJs) <= MaxPendingAtTap
    /\ \E i \in 1..Len(devices) :
          devices[i].address = address /\ PairEnabled(devices[i])
    /\ devices' = handlePair_begin(devices, address)
    /\ pairDevice("handlePair", address, DEFAULT_PIN)
    /\ UNCHANGED <<ui, scanning>>

\* the unpair button of a row, handleUnpair up to `await unpairDevice()`
handleUnpair(address) ==
    /\ life = "live" /\ ui = "ready"
    /\ Tap
    /\ Len(toJs) <= MaxPendingAtTap
    /\ \E i \in 1..Len(devices) :
          devices[i].address = address /\ UnpairShown(devices[i])
    /\ UNCHANGED jsVars
    /\ unpairDevice("handleUnpair", address)

\* the handler an arriving message runs
HandlerOf(m) ==
    IF m.kind = "event" THEN m.name
    ELSE CASE m.name = "startDiscovery" -> "handleScan"
           [] m.name = "stopDiscovery" -> "handleScan"
           [] m.name = "pairDevice" -> "handlePair"
           [] m.name = "unpairDevice" -> "handleUnpair"
           [] OTHER -> "loadBondedDevices"

DevicesAfter(prev, m) ==
    CASE m.kind = "event" /\ m.name = "onDeviceFound" ->
            onDeviceFound(prev, [address |-> m.address, name |-> m.devName,
                                 bondState |-> m.bondState])
      [] m.kind = "event" /\ m.name = "onPairingSuccess" ->
            onPairingSuccess(prev, m.address)
      [] m.kind = "event" /\ m.name = "onPairingFailed" ->
            onPairingFailed(prev, m.address)
      [] m.kind = "settle" /\ m.name = "pairDevice" -> handlePair_settled(prev, m)
      [] m.kind = "settle" /\ m.name = "unpairDevice" -> handleUnpair_settled(prev, m)
      [] m.kind = "settle" /\ m.name = "getBondedDevices" /\ m.ok ->
            loadBondedDevices_resolved(m.list)
      [] OTHER -> prev

ScanningAfter_KeepOnReject(prev, m) ==
    CASE m.kind = "event" /\ m.name = "onDiscoveryFinished" -> FALSE
      [] m.kind = "settle" /\ m.name = "stopDiscovery" /\ m.ok -> FALSE
      [] OTHER -> prev

ScanningAfter_Toggle(prev, m) ==
    CASE m.kind = "event" /\ m.name = "onDiscoveryFinished" -> ~prev
      [] m.kind = "settle" /\ m.name = "stopDiscovery" /\ m.ok -> FALSE
      [] m.kind = "settle" /\ m.name = "startDiscovery" /\ ~m.ok -> FALSE
      [] OTHER -> prev

\* onDiscoveryFinished; handleScan after `await stopDiscovery()` resolved;
\* handleScan's catch after `await startDiscovery()` rejected
ScanningAfter(prev, m) ==
    CASE m.kind = "event" /\ m.name = "onDiscoveryFinished" -> FALSE
      [] m.kind = "settle" /\ m.name = "stopDiscovery" /\ m.ok -> FALSE
      [] m.kind = "settle" /\ m.name = "startDiscovery" /\ ~m.ok -> FALSE
      [] OTHER -> prev

\* The next message of the bridge reaches JS: an event runs its subscribed
\* listener, a settlement resumes the handler that awaits it.
Deliver ==
    /\ life = "live"
    /\ UNCHANGED budgetVars
    /\ toJs # <<>>
    /\ LET m == Head(toJs)
       IN  /\ toJs' = Tail(toJs)
           /\ devices' = DevicesAfter(devices, m)
           /\ scanning' = ScanningAfter(scanning, m)
           /\ last' = [NoLast EXCEPT
                          !.js = HandlerOf(m),
                          !.settles = IF m.kind = "settle" THEN m.name ELSE "",
                          !.address = m.address,
                          !.result = m.value,
                          !.ok = m.ok,
                          !.event = IF m.kind = "event" THEN m ELSE NoMsg,
                          !.repeat = (m.kind = "event" /\ last.event = m),
                          !.removed = Removed]
           /\ journey' = IF /\ m.kind = "event" /\ m.name = "onPairingSuccess"
                            /\ journey = Journey(m.address, "bonded")
                         THEN NoJourney ELSE journey
    /\ UNCHANGED <<platformVars, moduleVars, ui>>

\* -------------------------------------------------------- specifications
Platform ==
    \/ \E a \in Addrs, new \in BondStates : BondStateChanged(a, new)
    \/ DuplicateBondStateChanged
    \/ \E a \in Addrs, variant \in Variants, threw \in Throws :
          PairingRequest(a, variant, threw)
    \/ \E a \in Addrs : \E n \in PlatformNames(a) : DeviceFound(a, n)
    \/ ScanFinished
    \/ DiscoveryFinished
    \/ RadioSwitch
    \/ GrantPermission

\* the whole app: App.tsx drives the native module
Next ==
    \/ Platform
    \/ initialize
    \/ onCatalystInstanceDestroy
    \/ \E grant \in BOOLEAN : requestPermissions(grant)
    \/ loadBondedDevices
    \/ handleScan_stop
    \/ handleScan_start
    \/ \E a \in Addrs : handlePair(a)
    \/ \E a \in Addrs : handleUnpair(a)
    \/ Deliver

Spec == Init /\ [][Next]_vars

\* the native module alone: any client, any arguments
GatewayCall == life = "live" /\ Tap /\ UNCHANGED jsVars
call_startDiscovery == GatewayCall /\ startDiscovery("")
call_stopDiscovery == GatewayCall /\ stopDiscovery("")
call_getBondedDevices == GatewayCall /\ getBondedDevices("")
call_pairDevice(a, p) == GatewayCall /\ pairDevice("", a, p)
call_unpairDevice(a) == GatewayCall /\ unpairDevice("", a)

GatewayNext ==
    \/ Platform
    \/ initialize
    \/ onCatalystInstanceDestroy
    \/ call_startDiscovery
    \/ call_stopDiscovery
    \/ call_getBondedDevices
    \/ \E a \in Addrs, p \in Pins : call_pairDevice(a, p)
    \/ \E a \in Addrs : call_unpairDevice(a)

GatewaySpec == Init /\ [][GatewayNext]_vars

\* ------------------------------------------------------------------ claims
\* C1: every change of a record's pairing status is idle -> pairing,
\* failed -> pairing, pairing -> success or pairing -> failed. The event
\* handlers set the status whatever it was, so this does not hold.
C1_StatusPath ==
    [][\A i \in DOMAIN devices : \A j \in DOMAIN devices' :
          (/\ devices[i].address = devices'[j].address
           /\ devices[i].pairingStatus # devices'[j].pairingStatus)
          => <<devices[i].pairingStatus, devices'[j].pairingStatus>> \in
                { <<"idle", "pairing">>, <<"failed", "pairing">>,
                  <<"pairing", "success">>, <<"pairing", "failed">> }]_vars

\* C2: a record's status becomes 'pairing' only in the step in which
\* handlePair is called for its address; no event, settlement, scan start or
\* stop, or unpair sets it.
C2_PairingOnlyByHandlePair ==
    [][\A j \in DOMAIN devices' :
          (/\ devices'[j].pairingStatus = "pairing"
           /\ ~\E i \in DOMAIN devices :
                 /\ devices[i].address = devices'[j].address
                 /\ devices[i].pairingStatus = "pairing")
          => /\ last'.js = "handlePair"
             /\ last'.op = "pairDevice"
             /\ last'.address = devices'[j].address]_vars

\* a pairing event or a pair result was delivered for a record that is in
\* status success or failed
C2_Witness ==
    /\ last.op = ""
    /\ last.js \in {"onPairingSuccess", "onPairingFailed", "handlePair"}
    /\ \E i \in DOMAIN devices :
          /\ devices[i].address = last.address
          /\ devices[i].pairingStatus \in {"success", "failed"}

\* C3: the Bond State Observer sends onPairingFailed only for a signal with
\* new state BOND_NONE and previous state BOND_BONDING, never for
\* BONDED -> NONE (unpair) or NONE -> NONE.
C3_FailedOnlyAfterBonding ==
    \A k \in DOMAIN last.emitted :
        last.emitted[k].name = "onPairingFailed"
        => last.newState = BOND_NONE /\ last.prevState = BOND_BONDING

\* unpairDevice removed the bond of a bonded device, the observer was
\* registered and allowed to read the device, and it sent nothing
C3_Witness ==
    /\ last.op = "unpairDevice"
    /\ last.result = "true"
    /\ last.newState = BOND_NONE
    /\ last.prevState = BOND_BONDED
    /\ btPerm
    /\ bondRegs = 1
    /\ last.emitted = <<>>

\* C4, as stated: the signal NONE -> BONDING sends no onPairingFailed and
\* the signal BONDING -> NONE sends exactly one, whatever the state.
C4_ExactlyOneFailure ==
    LET failed == {k \in DOMAIN last.emitted :
                      /\ last.emitted[k].name = "onPairingFailed"
                      /\ last.emitted[k].address = last.address}
    IN  /\ (last.newState = BOND_BONDING /\ last.prevState = BOND_NONE)
           => Cardinality(failed) = 0
        /\ (last.newState = BOND_NONE /\ last.prevState = BOND_BONDING)
           => Cardinality(failed) = 1

\* C4, amended: the bondReceiver is registered exactly once while the module
\* lives, and when the app may read the device (BLUETOOTH_CONNECT granted)
\* NONE -> BONDING sends no onPairingFailed and BONDING -> NONE exactly one.
C4_ExactlyOneFailureWhenGranted ==
    LET failed == {k \in DOMAIN last.emitted :
                      /\ last.emitted[k].name = "onPairingFailed"
                      /\ last.emitted[k].address = last.address}
    IN  /\ life = "live" => bondRegs = 1
        /\ (btPerm /\ last.newState = BOND_BONDING /\ last.prevState = BOND_NONE)
           => Cardinality(failed) = 0
        /\ (btPerm /\ last.newState = BOND_NONE /\ last.prevState = BOND_BONDING)
           => Cardinality(failed) = 1

\* a bonding ended in BOND_NONE and one onPairingFailed was sent for it
C4_Witness ==
    /\ last.op = "bondStateChanged"
    /\ last.newState = BOND_NONE
    /\ last.prevState = BOND_BONDING
    /\ btPerm
    /\ Len(last.emitted) = 1
    /\ last.emitted[1].name = "onPairingFailed"

\* C5: handleScan while not scanning keeps exactly the records whose
\* bondState is BOND_BONDED, unchanged and in their order, and drops the
\* others.
C5_ScanStartKeepsBonded ==
    [][(last'.js = "handleScan" /\ last'.op = "startDiscovery")
       => /\ \A i \in DOMAIN devices :
                IF devices[i].bondState = BOND_BONDED
                THEN \E j \in DOMAIN devices' : devices'[j] = devices[i]
                ELSE \A j \in DOMAIN devices' :
                        devices'[j].address # devices[i].address
          /\ \A j \in DOMAIN devices' :
                \E i \in DOMAIN devices : devices[i] = devices'[j]
          /\ \A j, k \in DOMAIN devices' :
                j < k => \E i, l \in DOMAIN devices :
                            /\ i < l
                            /\ devices[i] = devices'[j]
                            /\ devices[l] = devices'[k]]_vars

\* a scan was started, it dropped a record and kept a bonded one
C5_Witness ==
    /\ last.js = "handleScan"
    /\ last.op = "startDiscovery"
    /\ last.removed # {}
    /\ \E i \in DOMAIN devices : devices[i].bondState = BOND_BONDED

\* C6, as stated: a record leaves `devices` only when unpairDevice resolved
\* for its address (or the app goes away).
C6_OnlyUnpairRemoves ==
    \A d \in last.removed :
        \/ /\ last.js = "handleUnpair"
           /\ last.settles = "unpairDevice"
           /\ last.result = "true"
           /\ last.address = d.address
        \/ last.op = "onCatalystInstanceDestroy"

\* C6, amended: a record leaves `devices` only when unpairDevice resolved
\* for its address, when a scan is started and the record's bondState is not
\* BOND_BONDED, or when the app goes away.
C6_OnlyUnpairRemovesBonded ==
    \A d \in last.removed :
        \/ /\ last.js = "handleUnpair"
           /\ last.settles = "unpairDevice"
           /\ last.result = "true"
           /\ last.address = d.address
        \/ /\ last.js = "handleScan"
           /\ last.op = "startDiscovery"
           /\ d.bondState # BOND_BONDED
        \/ last.op = "onCatalystInstanceDestroy"

\* unpairDevice resolved and the record of its address was taken out
C6_Witness ==
    /\ last.js = "handleUnpair"
    /\ last.settles = "unpairDevice"
    /\ \E d \in last.removed : d.address = last.address /\ d.bondState = BOND_BONDED

\* C7, as stated: with an adapter, the second of two stopDiscovery calls in
\* a row resolves like the first and leaves isDiscovering false and the
\* discoveryReceiver unregistered.
C7_StopTwice ==
    (last.op = "stopDiscovery" /\ last.repeat /\ adapter # "absent")
    => /\ last.result = "true"
       /\ ~isDiscovering
       /\ discRegs = 0

\* C7, amended: with an adapter and BLUETOOTH_SCAN granted, every
\* stopDiscovery call, the second of two in a row too, resolves true and
\* leaves isDiscovering false and the discoveryReceiver unregistered.
C7_StopTwiceWhenGranted ==
    (last.op = "stopDiscovery" /\ adapter # "absent" /\ btPerm)
    => /\ last.result = "true"
       /\ ~isDiscovering
       /\ discRegs = 0

\* stopDiscovery was called twice in a row with the radio on
C7_Witness ==
    /\ last.op = "stopDiscovery"
    /\ last.repeat
    /\ adapter = "on"
    /\ btPerm
    /\ last.result = "true"

\* C8: pairDevice(address, pin) leaves pin in PairingReceiver.pin, and a
\* PIN challenge is answered with setPin(pin of the latest pairDevice call).
\* pairDevice never assigns PairingReceiver.pin, so this does not hold.
C8_ConfiguredPin ==
    /\ (last.op = "pairDevice" /\ last.result \in {"BONDING_STARTED", "ALREADY_BONDED"})
       => pin = last.pin
    /\ (last.op = "pairingRequest" /\ last.variant = VARIANT_PIN)
       => /\ last.calls[1].api = "setPin"
          /\ last.calls[1].pin = requestedPin

\* C9: when pairDevice has called createBond no scan started by
\* startDiscovery runs, and isDiscovering is false when it returns.
\* isDiscovering can be false while a scan runs, and then pairDevice does
\* not cancel it.
C9_NoScanAtCreateBond ==
    (last.op = "pairDevice" /\ last.result \in {"BONDING_STARTED", "BOND_FAILED"})
    => ~scanActive /\ ~isDiscovering

C11_ScenarioA ==
    [][(/\ journey.stage = "bonded"
        /\ last'.js = "onPairingSuccess"
        /\ last'.op = ""
        /\ last'.address = journey.address)
       => \E j \in DOMAIN devices' :
             /\ devices'[j].address = journey.address
             /\ devices'[j].pairingStatus = "success"
             /\ devices'[j].bondState = BOND_BONDED]_vars

\* C12: a record in status 'pairing' is in status 'failed' after an
\* onPairingFailed event for its address reached App, and after the
\* pairDevice call for its address was rejected, whatever the code.
C12_PairingBecomesFailed ==
    [][(/\ last'.op = ""
        /\ \/ last'.js = "onPairingFailed"
           \/ /\ last'.js = "handlePair"
              /\ last'.settles = "pairDevice"
              /\ ~last'.ok)
       => \A i \in DOMAIN devices :
             (/\ devices[i].address = last'.address
              /\ devices[i].pairingStatus = "pairing")
             => /\ i \in DOMAIN devices'
                /\ devices'[i].address = devices[i].address
                /\ devices'[i].pairingStatus = "failed"]_vars

\* handlePair resumed on the rejection BOND_FAILED and the record of its
\* address is 'failed'
C12_Witness ==
    /\ last.js = "handlePair"
    /\ last.settles = "pairDevice"
    /\ ~last.ok
    /\ last.result = "BOND_FAILED"
    /\ \E i \in DOMAIN devices :
          /\ devices[i].address = last.address
          /\ devices[i].pairingStatus = "failed"

\* the variants the `when` of the Pairing Responder names
KnownVariants == {VARIANT_PIN, VARIANT_PASSKEY_CONFIRMATION, VARIANT_CONSENT}

\* C13: for a challenge with a variant the responder does not know (1, 99)
\* it calls setPairingConfirmation and then abortBroadcast, and no exception
\* leaves onReceive. When setPairingConfirmation raises, the catch is
\* entered and abortBroadcast is never called.
C13_UnknownVariant ==
    (last.op = "pairingRequest" /\ last.variant \notin KnownVariants)
    => /\ ~last.escaped
       /\ Len(last.calls) = 2
       /\ last.calls[1].api = "setPairingConfirmation"
       /\ last.calls[2].api = "abortBroadcast"

\* the resolution calls (setPin, setPairingConfirmation) among the calls the
\* responder made for the challenge of the step
ResolutionCalls ==
    {k \in DOMAIN last.calls :
        last.calls[k].api \in {"setPin", "setPairingConfirmation"}}

C16_DispatchThenSuppress ==
    (last.op = "pairingRequest" /\ last.variant \in KnownVariants)
    => /\ Len(last.calls) = 2
       /\ last.calls[1].api =
             (IF last.variant = VARIANT_PIN THEN "setPin" ELSE "setPairingConfirmation")
       /\ last.variant = VARIANT_PIN => last.calls[1].pin = pin
       /\ last.calls[2].api = "abortBroadcast"

\* C17: startDiscovery rejects with BT_UNAVAILABLE exactly when there is no
\* adapter, with BT_DISABLED exactly when the radio is off, with
\* SECURITY_ERROR exactly when the radio is on and BLUETOOTH_SCAN is not
\* granted, and with DISCOVERY_FAILED exactly when adapter.startDiscovery()
\* returned false; the four codes differ and none of these calls resolves.
C17_TypedStartFailures ==
    last.op = "startDiscovery"
    => /\ (adapter = "absent") <=> (last.result = "BT_UNAVAILABLE")
       /\ (adapter = "off") <=> (last.result = "BT_DISABLED")
       /\ (adapter = "on" /\ ~btPerm) <=> (last.result = "SECURITY_ERROR")
       /\ (adapter = "on" /\ btPerm /\ ~isDiscovering)
             <=> (last.result = "DISCOVERY_FAILED")
       /\ last.ok <=> (last.result = "true")
       /\ last.ok <=> (adapter = "on" /\ btPerm /\ isDiscovering)

\* the platform declined to start a scan
C17_Witness ==
    /\ last.op = "startDiscovery"
    /\ adapter = "on"
    /\ btPerm
    /\ ~last.ok
    /\ last.result = "DISCOVERY_FAILED"

\* C18: when handleUnpair resumes on a resolved unpairDevice, no record of
\* the address is left, whatever its status was, and the other records are
\* kept as they were and in their order; when it resumes on a rejection,
\* whatever the code, `devices` is unchanged.
C18_UnpairOutcome ==
    [][(last'.js = "handleUnpair" /\ last'.settles = "unpairDevice")
       => IF last'.ok
          THEN /\ \A j \in DOMAIN devices' : devices'[j].address # last'.address
               /\ \A i \in DOMAIN devices :
                     devices[i].address # last'.address
                     => \E j \in DOMAIN devices' : devices'[j] = devices[i]
               /\ \A j, k \in DOMAIN devices' :
                     j < k => \E i, l \in DOMAIN devices :
                                 /\ i < l
                                 /\ devices[i] = devices'[j]
                                 /\ devices[l] = devices'[k]
          ELSE devices' = devices]_vars

\* removeBond returned false: handleUnpair resumed on UNPAIR_FAILED and the
\* record of its address is still there
C18_Witness ==
    /\ last.js = "handleUnpair"
    /\ last.settles = "unpairDevice"
    /\ ~last.ok
    /\ last.result = "UNPAIR_FAILED"
    /\ \E i \in DOMAIN devices : devices[i].address = last.address

\* C19: when the platform has no usable removeBond (getMethod raises
\* NoSuchMethodException, or the reflective invoke raises), unpairDevice
\* rejects with UNPAIR_FAILED, the code of a removeBond that returned false.
\* The exception is caught by catch (e: Exception), which rejects with ERROR.
C19_UnavailableIsUnpairFailed ==
    (last.op = "unpairDevice" /\ last.exception \in ReflectionExceptions)
    => last.result = "UNPAIR_FAILED"

\* C20: after an onPairingSuccess event for an address reached App (mounted,
\* its bonded devices loaded), a record of that address is in `devices` with
\* bondState BOND_BONDED, whatever happened between the broadcast and the
\* event's arrival. The listener only rewrites records that are there: a
\* device without a record (never found by a scan, or dropped when a scan
\* started) gets none.
C20_BondedIsVisible ==
    (/\ last.js = "onPairingSuccess"
     /\ last.op = ""
     /\ ui = "ready"
     /\ \A k \in DOMAIN toJs : toJs[k].name # "getBondedDevices")
    => \E i \in DOMAIN devices :
          /\ devices[i].address = last.address
          /\ devices[i].bondState = BOND_BONDED

\* C21: when an onDeviceFound event reaches App for an address that has a
\* record, the record keeps its name and its bondState becomes the one the
\* event carries. The listener returns prev when the address is there, so
\* the record keeps the bondState it was added with.
C21_FoundUpdatesBondState ==
    [][(last'.op = "" /\ last'.js = "onDeviceFound")
       => \A i \in DOMAIN devices :
             devices[i].address = last'.address
             => /\ devices'[i].address = devices[i].address
                /\ devices'[i].name = devices[i].name
                /\ devices'[i].bondState = last'.event.bondState]_vars

\* C22: `devices` never holds two records with the same address, whatever
\* the order of bonded-device loads, onDeviceFound events (repeated ones
\* too), scans, pairings and unpairings.
C22_UniqueAddress ==
    \A i, j \in DOMAIN devices :
        devices[i].address = devices[j].address => i = j

\* an onDeviceFound event reached App twice in a row and the list holds
\* the device once
C22_Witness ==
    /\ last.js = "onDeviceFound"
    /\ last.op = ""
    /\ last.repeat
    /\ Cardinality({i \in DOMAIN devices : devices[i].address = last.address}) = 1

\* the step just taken (primed `last`) is one that may end the status
\* 'pairing' of the records of address a: an onPairingSuccess or
\* onPairingFailed event for a reached App, or handlePair resumed on a
\* pairDevice(a) that did not resolve BONDING_STARTED
EndsPairing(a) ==
    /\ last'.op = ""
    /\ last'.address = a
    /\ \/ last'.js \in {"onPairingSuccess", "onPairingFailed"}
       \/ /\ last'.js = "handlePair"
          /\ last'.settles = "pairDevice"
          /\ last'.result # "BONDING_STARTED"

\* C23, as stated: while the app lives, a record in status 'pairing' is
\* still there in status 'pairing' after every step that is not a pairing
\* event for its address (nor a pairDevice for it that did not start a
\* bonding).
C23_StaysPairing ==
    [][\A i \in DOMAIN devices :
          (/\ devices[i].pairingStatus = "pairing"
           /\ ~EndsPairing(devices[i].address)
           /\ last'.op # "onCatalystInstanceDestroy")
          => \E j \in DOMAIN devices' :
                /\ devices'[j].address = devices[i].address
                /\ devices'[j].pairingStatus = "pairing"]_vars

\* C23, amended: after every step that is not a pairing event for its
\* address (nor a pairDevice for it that did not start a bonding) a record
\* in status 'pairing' is either still in status 'pairing' or gone, and it
\* is gone only when a scan was started or the app went away.
C23_PairingKeptOrDropped ==
    [][\A i \in DOMAIN devices :
          (/\ devices[i].pairingStatus = "pairing"
           /\ ~EndsPairing(devices[i].address))
          => \/ \E j \in DOMAIN devices' :
                   /\ devices'[j].address = devices[i].address
                   /\ devices'[j].pairingStatus = "pairing"
             \/ /\ \A j \in DOMAIN devices' :
                      devices'[j].address # devices[i].address
                /\ \/ last'.js = "handleScan" /\ last'.op = "startDiscovery"
                   \/ last'.op = "onCatalystInstanceDestroy"]_vars

\* handlePair resumed on BONDING_STARTED and the record is 'pairing'
C23_Witness ==
    /\ last.js = "handlePair"
    /\ last.settles = "pairDevice"
    /\ last.result = "BONDING_STARTED"
    /\ \E i \in DOMAIN devices :
          /\ devices[i].address = last.address
          /\ devices[i].pairingStatus = "pairing"

\* C24: the discoveryReceiver is registered at most once, whatever the
\* sequence of startDiscovery calls, so one ACTION_FOUND gives one
\* onDeviceFound event. startDiscovery registers the receiver on every call
\* and only stopDiscovery and the teardown unregister it.
C24_RegisteredOnce ==
    /\ discRegs <= 1
    /\ (last.op = "deviceFound" /\ btPerm) => Len(last.emitted) = 1

\* C25: the discoveryReceiver is registered only while isDiscovering is set:
\* whenever the session is STOPPED (discovery finished, stopDiscovery,
\* pairDevice cancelled the scan, startDiscovery failed) no registration of
\* the receiver is left.
C25_RegisteredOnlyWhileRunning ==
    (life = "live" /\ ~isDiscovering) => discRegs = 0

\* C26: isDiscovering is set whenever a platform scan started by
\* startDiscovery is still active, under every interleaving of gateway calls
\* with discoveryReceiver callbacks, the ACTION_DISCOVERY_FINISHED of a
\* cancelled session included.
C26_RunningWhileScanActive ==
    (life = "live" /\ scanActive) => isDiscovering

\* C27: after onCatalystInstanceDestroy neither discoveryReceiver nor
\* bondReceiver is registered, whatever the state before the teardown and
\* whether or not cancelDiscovery or an unregisterReceiver call raised.
C27_NothingRegisteredAfterTeardown ==
    life = "destroyed" => (discRegs = 0 /\ bondRegs = 0)

\* C28: each delivery of ACTION_DISCOVERY_FINISHED to the discoveryReceiver
\* clears isDiscovering and sends one onDiscoveryFinished event; each
\* delivery of ACTION_FOUND sends one onDeviceFound event with the device's
\* address, its name ("Unknown" when the platform has none) and its bond
\* state at that moment, whether or not the address was reported before,
\* and leaves isDiscovering as it was. (The platform delivers a broadcast
\* once per registration of the receiver.)
C28_ListenerForwards ==
    [][/\ last'.op = "discoveryFinished"
          => /\ ~isDiscovering'
             /\ Len(last'.emitted) = discRegs
             /\ \A i \in DOMAIN last'.emitted :
                   /\ last'.emitted[i].kind = "event"
                   /\ last'.emitted[i].name = "onDiscoveryFinished"
       /\ last'.op = "deviceFound"
          => /\ isDiscovering' = isDiscovering
             /\ Len(last'.emitted) = discRegs
             /\ \A i \in DOMAIN last'.emitted :
                   /\ last'.emitted[i].kind = "event"
                   /\ last'.emitted[i].name = "onDeviceFound"
                   /\ last'.emitted[i].address = last'.address
                   /\ last'.emitted[i].devName =
                         (IF last'.devName = NoName THEN Str_Unknown
                          ELSE last'.devName)
                   /\ last'.emitted[i].bondState = bond[last'.address]]_vars

\* a device whose name the platform does not know is reported a second time
\* while the event of the first report is still on its way to JS
C28_Witness ==
    /\ last.op = "deviceFound"
    /\ last.devName = NoName
    /\ discRegs = 1
    /\ Len(last.emitted) = 1
    /\ last.emitted[1].devName = Str_Unknown
    /\ Len(toJs) = 2
    /\ toJs[1] = toJs[2]
    /\ toJs[2] = last.emitted[1]

\* C29, as stated: every ACTION_BOND_STATE_CHANGED with new state
\* BOND_BONDED makes the bondReceiver send exactly one onPairingSuccess for
\* the device, and one with new state BOND_BONDING sends neither
\* onPairingSuccess nor onPairingFailed.
C29_SuccessOnBonded ==
    last.op = "bondStateChanged"
    => /\ last.newState = BOND_BONDED
          => /\ Len(last.emitted) = 1
             /\ last.emitted[1].name = "onPairingSuccess"
             /\ last.emitted[1].address = last.address
       /\ last.newState = BOND_BONDING => last.emitted = <<>>

\* C29, amended: when BLUETOOTH_CONNECT is granted, a signal with new state
\* BOND_BONDED sends exactly one onPairingSuccess for the device; without
\* the permission it sends nothing; a signal with new state BOND_BONDING
\* sends nothing in either case.
C29_SuccessOnBondedWhenGranted ==
    last.op = "bondStateChanged"
    => /\ (btPerm /\ last.newState = BOND_BONDED)
          => /\ Len(last.emitted) = 1
             /\ last.emitted[1].name = "onPairingSuccess"
             /\ last.emitted[1].address = last.address
             /\ last.emitted[1].bondState = BOND_BONDED
       /\ (~btPerm /\ last.newState = BOND_BONDED) => last.emitted = <<>>
       /\ last.newState = BOND_BONDING => last.emitted = <<>>

\* a bonding ended in BOND_BONDED and one onPairingSuccess was sent for it
C29_Witness ==
    /\ last.op = "bondStateChanged"
    /\ last.newState = BOND_BONDED
    /\ last.prevState = BOND_BONDING
    /\ btPerm
    /\ last.emitted = <<Event("onPairingSuccess", last.address,
                               RealName(last.address), BOND_BONDED)>>

\* C30: when the event that the last step delivered to App is delivered
\* again in the next step (onDeviceFound, onDiscoveryFinished,
\* onPairingSuccess or onPairingFailed), the second delivery leaves the
\* device list, every record in it and the scanning flag as the first
\* delivery left them.
C30_RepeatedDeliveryIsIdle ==
    [][(last'.op = "" /\ last'.repeat)
       => /\ last'.event.kind = "event"
          /\ last'.event = last.event
          /\ devices' = devices
          /\ scanning' = scanning]_vars

\* a duplicated onPairingSuccess was delivered twice in a row to a list
\* that holds the device
C30_Witness ==
    /\ last.repeat
    /\ last.js = "onPairingSuccess"
    /\ \E i \in DOMAIN devices :
          /\ devices[i].address = last.address
          /\ devices[i].pairingStatus = "success"

\* C31: a record of the device list whose pairingStatus is 'success' has
\* bondState BOND_BONDED.
C31_SuccessIsBonded ==
    \A i \in DOMAIN devices :
        devices[i].pairingStatus = "success" => devices[i].bondState = BOND_BONDED

\* onPairingSuccess was delivered for a device of the list and set its record
C31_Witness ==
    /\ last.js = "onPairingSuccess"
    /\ \E i \in DOMAIN devices :
          /\ devices[i].address = last.address
          /\ devices[i].pairingStatus = "success"
          /\ devices[i].bondState = BOND_BONDED
          /\ last.removed = {}
    /\ ~last.repeat

\* the step is a pairing event, the start of handlePair or the settlement
\* of its pairDevice call, for address a
PairingStepFor(a) ==
    /\ last'.address = a
    /\ \/ last'.op = "" /\ last'.js \in {"onPairingSuccess", "onPairingFailed"}
       \/ last'.js = "handlePair" /\ last'.op = "pairDevice"
       \/ last'.op = "" /\ last'.js = "handlePair" /\ last'.settles = "pairDevice"

\* C32: onPairingSuccess, onPairingFailed, handlePair and the settlement of
\* its pairDevice call for address X keep the addresses of the list and
\* their order, leave every record of another address as it was, and
\* change nothing when no record has address X.
C32_OnlyThatRecord ==
    [][\A a \in Addrs :
          PairingStepFor(a)
          => /\ Len(devices') = Len(devices)
             /\ \A i \in DOMAIN devices :
                   /\ devices'[i].address = devices[i].address
                   /\ devices[i].address # a => devices'[i] = devices[i]
             /\ (\A i \in DOMAIN devices : devices[i].address # a)
                => devices' = devices]_vars

\* a pairing event changed the record of its address in a list of two
C32_Witness ==
    /\ last.op = ""
    /\ last.js \in {"onPairingSuccess", "onPairingFailed"}
    /\ Len(devices) = 2
    /\ \E i, j \in DOMAIN devices :
          /\ devices[i].address = last.address
          /\ devices[i].pairingStatus \in {"success", "failed"}
          /\ devices[j].address # last.address
          /\ devices[j].pairingStatus \in {"idle", "pairing"}

\* C33: a record that is not bonded and whose pairingStatus is 'idle' or
\* 'failed' has its pair button enabled, so handlePair can be started for
\* it; in particular the record an onPairingFailed event has just marked
\* 'failed' can be paired again without a new scan.
C33_PairAlwaysPossible ==
    ui = "ready"
    => \A i \in DOMAIN devices :
          (/\ devices[i].bondState # BOND_BONDED
           /\ devices[i].pairingStatus \in {"idle", "failed"})
          => PairEnabled(devices[i])

\* the step is the start branch of handleScan, up to its await
ScanStartStep == last'.js = "handleScan" /\ last'.op = "startDiscovery"
\* the step resumes handleScan after startDiscovery rejected
StartRejectedStep ==
    last'.op = "" /\ last'.settles = "startDiscovery" /\ ~last'.ok
\* the step resumes handleScan after stopDiscovery resolved
StopResolvedStep ==
    last'.op = "" /\ last'.settles = "stopDiscovery" /\ last'.ok
\* the step runs the onDiscoveryFinished listener
FinishedStep == last'.op = "" /\ last'.js = "onDiscoveryFinished"

\* C34: `scanning` becomes true only in the start branch of handleScan and
\* stays true until the first of: stopDiscovery resolved for the stop
\* branch of handleScan, an onDiscoveryFinished event, the rejection of
\* startDiscovery (or the app going away); each of the three leaves it
\* false. The rejection of startDiscovery leaves the device list as the
\* start branch filtered it.
C34_ScanningWindow ==
    [][/\ (~scanning /\ scanning') => ScanStartStep
       /\ (scanning /\ ~scanning')
          => \/ StartRejectedStep \/ StopResolvedStep \/ FinishedStep
             \/ last'.op = "onCatalystInstanceDestroy"
       /\ (StartRejectedStep \/ StopResolvedStep \/ FinishedStep) => ~scanning'
       /\ ScanStartStep => devices' = handleScan_filter(devices)
       /\ StartRejectedStep => devices' = devices]_vars

\* startDiscovery was rejected and the catch of handleScan has reset the flag
C34_Witness ==
    /\ last.op = ""
    /\ last.settles = "startDiscovery"
    /\ ~last.ok
    /\ ~scanning
    /\ ui = "ready"

\* C35: startDiscovery resolves exactly when isDiscovering is set right
\* after the call; every rejected call (BT_UNAVAILABLE, BT_DISABLED,
\* SECURITY_ERROR, DISCOVERY_FAILED) leaves isDiscovering clear.
C35_AcceptedIffRunning ==
    [][last'.op = "startDiscovery" => (last'.ok <=> isDiscovering')]_vars
====
